---- MODULE Spec2Model ----
(***************************************************************************)
(* Wheel rotation and selection engine of the spin-wheel widget.           *)
(*                                                                         *)
(* Two copies of the component exist in the repository:                    *)
(*   "types"      - src/src/types/index.ts (winner modal, remove blocked   *)
(*                  at the minimum, reset to the default list)             *)
(*   "components" - src/src/components/SpinnerApp.tsx (edit, unguarded     *)
(*                  remove, clear to the empty list, no winner modal)      *)
(* The variable impl selects the copy; it never changes.                   *)
(*                                                                         *)
(* Angles are exact rationals, held as integers in units of 1/Scale of a   *)
(* degree.  Scale is chosen so that every quotient the code forms          *)
(* (360/n, segmentAngle/2, segmentAngle*0.1, the sampled random offsets)   *)
(* is an integer for every list length up to maxOptions.  Floating-point   *)
(* rounding is therefore outside the model.                                *)
(*                                                                         *)
(* A label is a sequence of one-character strings, so that trim() is       *)
(* computed.  A nullable label (string | null) is a sequence of labels of  *)
(* length 0 (null) or 1.                                                   *)
(***************************************************************************)
EXTENDS Integers, Sequences, FiniteSets, TLC

VARIABLES
    impl,                    \* which copy of SpinnerApp is running
    options,                 \* useState<string[]>: the option list
    isSpinning,              \* useState<boolean>
    winner,                  \* useState<string | null>   (types only)
    showResult,              \* useState<boolean>         (types only)
    currentRotation,         \* useState<number>: cumulative rotation
    pendingPreservedWinner,  \* useState<string | null>
    timers,                  \* outstanding spin-completion setTimeout closures
    lastEvent,               \* history: the last handler that ran and its outcome
    used,                    \* history: how many handler calls were accepted so far
    probe                    \* inputs and result of a direct call of a pure function

vars == <<impl, options, isSpinning, winner, showResult, currentRotation,
          pendingPreservedWinner, timers, lastEvent, used, probe>>

appVars == <<impl, options, isSpinning, winner, showResult, currentRotation,
             pendingPreservedWinner, timers, lastEvent, used>>

-----------------------------------------------------------------------------
(* Bounds of the model *)

\* Math.random() for the offset inside the segment is sampled at j/RandDen, j < RandDen
RandDen == 2
\* accepted adds, removals, edits, clears and spins along one behaviour
MaxEvents == 2
\* directly probed rotations lie within ProbeTurns turns on either side of zero
ProbeTurns == 1

-----------------------------------------------------------------------------
(* CONFIG *)

maxOptions == 12
minOptions == 2
maxOptionLength == 50
minRotations == 3
maxRotations == 6
POINTER_AT_DEG == 270

Scale == 2 * 2 * 3 * 5 * 5 * 7 * 11
Deg(d) == d * Scale
Turn == Deg(360)

Null == <<>>
Some(label) == <<label>>
EmptyString == <<>>

defaultOptions ==
    << <<"O", "p", "t", "i", "o", "n", " ", "1">>,
       <<"O", "p", "t", "i", "o", "n", " ", "2">> >>

-----------------------------------------------------------------------------
(* Strings *)

RECURSIVE TrimStart(_)
TrimStart(s) ==
    IF s # <<>> /\ Head(s) = " " THEN TrimStart(Tail(s)) ELSE s

RECURSIVE TrimEnd(_)
TrimEnd(s) ==
    IF s # <<>> /\ s[Len(s)] = " " THEN TrimEnd(SubSeq(s, 1, Len(s) - 1)) ELSE s

\* String.prototype.trim
Trim(s) == TrimEnd(TrimStart(s))

\* Array.prototype.includes
Includes(opts, label) == \E i \in 1..Len(opts) : opts[i] = label

\* Array.prototype.indexOf, 0-based, -1 when absent
IndexOf(opts, label) ==
    IF Includes(opts, label)
    THEN (CHOOSE i \in 1..Len(opts) :
              opts[i] = label /\ \A j \in 1..(i - 1) : opts[j] # label) - 1
    ELSE -1

\* options.filter((_, i) => i !== index), index 0-based
FilterOut(opts, index) ==
    [i \in 1..(Len(opts) - 1) |-> IF i <= index THEN opts[i] ELSE opts[i + 1]]

-----------------------------------------------------------------------------
(* Numbers *)

\* the JavaScript % operator: the result takes the sign of the dividend
JsRem(n, m) == IF n >= 0 THEN n % m ELSE -((-n) % m)

\* const mod = (n, m) => ((n % m) + m) % m, with the bug of a plain remainder
modPlainRemainder(n, m) == JsRem(n, m)

\* const mod = (n, m) => ((n % m) + m) % m
mod(n, m) == JsRem(JsRem(n, m) + m, m)

\* Math.floor(a / b) for b > 0
FloorDiv(a, b) == a \div b

\* Math.round(a / b) for b > 0: nearest integer, ties towards +Infinity
RoundDiv(a, b) == (2 * a + b) \div (2 * b)

\* 360 / options.length
SegmentAngle(n) == Turn \div n

-----------------------------------------------------------------------------
(* Winner resolver *)

\* getCurrentWinner with the pointer taken at the wheel's local zero
getCurrentWinnerNoPointer(opts, totalDegrees) ==
    IF Len(opts) = 0 THEN EmptyString
    ELSE LET rot == mod(totalDegrees, Turn)
             topWheelAngle == mod(0 - rot, Turn)
             segmentIndex == FloorDiv(topWheelAngle, SegmentAngle(Len(opts))) % Len(opts)
         IN  opts[segmentIndex + 1]

\* getCurrentWinner without its first line: 360 / 0 is Infinity, the index is
\* NaN and options[NaN] is undefined
getCurrentWinnerNoEmptyGuard(opts, totalDegrees) ==
    IF Len(opts) = 0 THEN <<"undefined">>
    ELSE LET segmentAngle == SegmentAngle(Len(opts))
             rot == mod(totalDegrees, Turn)
             topWheelAngle == mod(Deg(POINTER_AT_DEG) - rot, Turn)
             segmentIndex == FloorDiv(topWheelAngle, segmentAngle) % Len(opts)
         IN  opts[segmentIndex + 1]

\* getCurrentWinner, closed over the option list of the render it belongs to
getCurrentWinner(opts, totalDegrees) ==
    IF Len(opts) = 0 THEN EmptyString
    ELSE LET segmentAngle == SegmentAngle(Len(opts))
             rot == mod(totalDegrees, Turn)
             topWheelAngle == mod(Deg(POINTER_AT_DEG) - rot, Turn)
             segmentIndex == FloorDiv(topWheelAngle, segmentAngle) % Len(opts)
         IN  opts[segmentIndex + 1]

-----------------------------------------------------------------------------
(* Realignment effect *)

\* the rotation the effect sets when label sits at 0-based index in opts
\* (variant that takes the index as 1-based)
targetRotationOneBased(opts, index, rotation) ==
    LET segmentAngle == SegmentAngle(Len(opts))
        centerWheelAngle == (index - 1) * segmentAngle + segmentAngle \div 2
        targetBase == mod(Deg(POINTER_AT_DEG) - centerWheelAngle, Turn)
        k == RoundDiv(rotation - targetBase, Turn)
    IN  targetBase + Turn * k

\* (variant that keeps the canonical rotation and skips the nearest-turn step)
targetRotationCanonical(opts, index, rotation) ==
    LET segmentAngle == SegmentAngle(Len(opts))
        centerWheelAngle == index * segmentAngle + segmentAngle \div 2
    IN  mod(Deg(POINTER_AT_DEG) - centerWheelAngle, Turn)

\* (variant that lands on the start of the segment instead of its centre)
targetRotationSegmentStart(opts, index, rotation) ==
    LET segmentAngle == SegmentAngle(Len(opts))
        centerWheelAngle == index * segmentAngle
        targetBase == mod(Deg(POINTER_AT_DEG) - centerWheelAngle, Turn)
        k == RoundDiv(rotation - targetBase, Turn)
    IN  targetBase + Turn * k

\* (variant that counts the turns of the rotation alone, not of its distance
\* to targetBase)
targetRotationTurnsOfRotation(opts, index, rotation) ==
    LET segmentAngle == SegmentAngle(Len(opts))
        centerWheelAngle == index * segmentAngle + segmentAngle \div 2
        targetBase == mod(Deg(POINTER_AT_DEG) - centerWheelAngle, Turn)
        k == RoundDiv(rotation, Turn)
    IN  targetBase + Turn * k

\* the rotation the effect sets when label sits at 0-based index in opts
targetRotation(opts, index, rotation) ==
    LET segmentAngle == SegmentAngle(Len(opts))
        centerWheelAngle == index * segmentAngle + segmentAngle \div 2
        targetBase == mod(Deg(POINTER_AT_DEG) - centerWheelAngle, Turn)
        k == RoundDiv(rotation - targetBase, Turn)
    IN  targetBase + Turn * k

\* the effect resetting the rotation when the label is gone
EffectPassResetOnMissing(opts, pending, rotation) ==
    IF pending = Null \/ pending = Some(EmptyString)
    THEN [pending |-> pending, rotation |-> rotation]
    ELSE LET label == pending[1]
             index == IndexOf(opts, label)
         IN  IF index < 0
             THEN [pending |-> Null, rotation |-> 0]
             ELSE [pending |-> Null, rotation |-> targetRotation(opts, index, rotation)]

\* the effect consuming the pending label only after it has found it
EffectPassKeepOnMissing(opts, pending, rotation) ==
    IF pending = Null \/ pending = Some(EmptyString)
    THEN [pending |-> pending, rotation |-> rotation]
    ELSE LET label == pending[1]
             index == IndexOf(opts, label)
         IN  IF index < 0
             THEN [pending |-> pending, rotation |-> rotation]
             ELSE [pending |-> Null, rotation |-> targetRotation(opts, index, rotation)]

\* one run of the effect: [pending, rotation] after it.  A null or empty pending
\* label is falsy and ends the effect at once; otherwise the label is consumed.
EffectPass(opts, pending, rotation) ==
    IF pending = Null \/ pending = Some(EmptyString)
    THEN [pending |-> pending, rotation |-> rotation]
    ELSE LET label == pending[1]
             index == IndexOf(opts, label)
         IN  IF index < 0
             THEN [pending |-> Null, rotation |-> rotation]
             ELSE [pending |-> Null, rotation |-> targetRotation(opts, index, rotation)]

\* the effect re-runs while a run changed one of its dependencies
RECURSIVE Settle(_, _, _)
Settle(opts, pending, rotation) ==
    LET after == EffectPass(opts, pending, rotation)
    IN  IF after.pending = pending /\ after.rotation = rotation
        THEN after
        ELSE Settle(opts, after.pending, after.rotation)

-----------------------------------------------------------------------------
(* Spin generator *)

\* randomDegrees, with its three Math.random() draws made explicit:
\*   segmentIndex = Math.floor(Math.random() * n)           in 0..n-1
\*   u / RandDen  = the second Math.random()                a sample of [0,1)
\*   spinsDraw    = Math.floor(Math.random() * (max-min+1)) in 0..max-min
\* The first and third draws are sampled at their extremes and at the middle.
SegmentDraws(n) == {0, n \div 2, n - 1}
SpinsDraws == {0, maxRotations - minRotations}

\* targetAngle with the offset drawn over the whole segment
targetAngleOfNoMargin(n, segmentIndex, u) ==
    LET segmentAngle == SegmentAngle(n)
        offsetWithinSegment == (u * segmentAngle) \div RandDen
    IN  segmentIndex * segmentAngle + offsetWithinSegment

targetAngleOf(n, segmentIndex, u) ==
    LET segmentAngle == SegmentAngle(n)
        margin == segmentAngle \div 10
        offsetWithinSegment == margin + (u * (segmentAngle - 2 * margin)) \div RandDen
    IN  segmentIndex * segmentAngle + offsetWithinSegment

\* randomDegrees without the "+ CONFIG.minRotations" of spins
randomDegreesNoMinimum(n, segmentIndex, u, spinsDraw) ==
    LET spins == spinsDraw
    IN  spins * Turn + targetAngleOf(n, segmentIndex, u)

randomDegrees(n, segmentIndex, u, spinsDraw) ==
    LET spins == spinsDraw + minRotations
    IN  spins * Turn + targetAngleOf(n, segmentIndex, u)

-----------------------------------------------------------------------------
(* Inputs the user can type *)

\* labels beyond the defaults, taken in this order: the first one not in the list
FreshLabels ==
    << <<"a">>, <<"b">>, <<"c">>, <<"d">>, <<"e">>, <<"f">>,
       <<"g">>, <<"h">>, <<"i">>, <<"j">>, <<"k">> >>

LabelPool == defaultOptions \o FreshLabels

FirstFresh(opts) ==
    LET free == {i \in 1..Len(LabelPool) : ~Includes(opts, LabelPool[i])}
    IN  IF free = {} THEN {}
        ELSE {LabelPool[CHOOSE i \in free : \A j \in free : i <= j]}

Padded(label) == <<" ">> \o label \o <<" ", " ">>

\* one character more than maxOptionLength
TooLongText == [i \in 1..(maxOptionLength + 1) |-> "x"]

BlankTexts == {<<>>, <<" ", " ">>}

\* texts typed into the add form: blank, too long, a new label (bare and
\* padded with spaces), and a padded copy of a label already in the list
AddTexts(opts) ==
    BlankTexts \cup {TooLongText}
      \cup FirstFresh(opts) \cup {Padded(l) : l \in FirstFresh(opts)}
      \cup {Padded(opts[i]) : i \in {1, Len(opts)} \cap DOMAIN opts}

\* the options whose edit button is pressed: the first and the last
EditIndexes(n) == {0, n - 1} \cap 0..(n - 1)

\* texts the edit prompt returns for the option at 0-based index: blank, too
\* long, a new label, the option's own text padded, and its neighbour's label
EditTexts(opts, index) ==
    {<<" ">>, TooLongText}
      \cup FirstFresh(opts)
      \cup {Padded(opts[index + 1])}
      \cup {opts[((index + 1) % Len(opts)) + 1]}

-----------------------------------------------------------------------------
(* State after construction *)

NoEvent ==
    [op |-> "none", result |-> "", index |-> -1, angle |-> 0, prevWinner |-> Null,
     text |-> Null]
Event(op, result) == [NoEvent EXCEPT !.op = op, !.result = result]

NoProbe ==
    [fn |-> "none", opts |-> <<>>, r |-> 0, index |-> -1, out |-> 0, label |-> Null,
     again |-> 0, rerun |-> 0]

\* what an accepted handleSubmit(text) leaves: the list with the trimmed text
\* appended, and the pending label and rotation once the effect has run
AddOutcome(opts, rotation, text) ==
    LET added == Append(opts, Trim(text))
        settled == Settle(added, Some(getCurrentWinner(opts, rotation)), rotation)
    IN  [options |-> added, pending |-> settled.pending, rotation |-> settled.rotation]

\* the list and rotation of a freshly constructed component after k accepted
\* adds of the first fresh labels
RECURSIVE Prefilled(_)
Prefilled(k) ==
    IF k = 0
    THEN [options |-> defaultOptions, pending |-> Null, rotation |-> 0]
    ELSE LET before == Prefilled(k - 1)
             text == CHOOSE t \in FirstFresh(before.options) : TRUE
         IN  AddOutcome(before.options, before.rotation, text)

\* how many adds the first run makes: none, one, or enough to leave one slot
\* or no slot free
PrefillRuns ==
    LET room == maxOptions - Len(defaultOptions) IN {0, 1, room - 1, room}

\* The component after construction (useState initial values), or after
\* construction and a first run of accepted adds.
Init ==
    /\ impl \in {"types", "components"}
    /\ \E k \in PrefillRuns :
         /\ options = Prefilled(k).options
         /\ currentRotation = Prefilled(k).rotation
         /\ pendingPreservedWinner = Prefilled(k).pending
    /\ isSpinning = FALSE
    /\ winner = Null
    /\ showResult = FALSE
    /\ timers = <<>>
    /\ lastEvent = NoEvent
    /\ used = 0
    /\ probe = NoProbe

-----------------------------------------------------------------------------
(* Handlers.  Each action is one handler together with the re-render and the  *)
(* realignment effect that React runs before the next event is dispatched.    *)

\* state updates batched by a handler, then the effect until it is quiescent
Commit(opts, pending, rotation) ==
    LET settled == Settle(opts, pending, rotation)
    IN  /\ options' = opts
        /\ pendingPreservedWinner' = settled.pending
        /\ currentRotation' = settled.rotation

\* a handler that returns early after validating, with the pending label set
\* before the validation instead of after it
RejectedAfterPreserve(event) ==
    /\ lastEvent' = event
    /\ Commit(options, Some(getCurrentWinner(options, currentRotation)), currentRotation)
    /\ UNCHANGED used

\* a handler that returns early: no state setter has been called
Rejected(event) ==
    /\ lastEvent' = event
    /\ UNCHANGED <<options, currentRotation, pendingPreservedWinner, used>>

\* launchSpin with a minimum of one option
launchSpinGuardOneOption == isSpinning \/ Len(options) < minOptions - 1

\* launchSpin without the isSpinning half of its guard
launchSpinGuardNoSpinning == Len(options) < minOptions

\* launchSpin: if (isSpinning || options.length < CONFIG.minOptions) return;
launchSpinGuard == isSpinning \/ Len(options) < minOptions

\* the closure handed to setTimeout: getCurrentWinner closes over the option list
\* of the render in which launchSpin ran, newRotation is a local of that call
TimerClosure(opts, newRotation) == [options |-> opts, newRotation |-> newRotation]

launchSpin ==
    IF launchSpinGuard
    THEN /\ lastEvent' = Event("spin", "rejected")
         /\ UNCHANGED <<impl, options, isSpinning, winner, showResult, currentRotation,
                        pendingPreservedWinner, timers, used, probe>>
    ELSE /\ used < MaxEvents
         /\ \E segmentIndex \in SegmentDraws(Len(options)), u \in 0..(RandDen - 1),
               spinsDraw \in SpinsDraws :
              LET spinDegrees == randomDegrees(Len(options), segmentIndex, u, spinsDraw)
                  newRotation == currentRotation + spinDegrees
              IN  /\ isSpinning' = TRUE
                  /\ winner' = Null
                  /\ showResult' = FALSE
                  /\ Commit(options, pendingPreservedWinner, newRotation)
                  /\ timers' = Append(timers, TimerClosure(options, newRotation))
                  /\ lastEvent' = [Event("spin", "ok") EXCEPT
                                      !.index = segmentIndex,
                                      !.angle = targetAngleOf(Len(options), segmentIndex, u),
                                      !.prevWinner = Some(getCurrentWinner(options, currentRotation))]
         /\ used' = used + 1
         /\ UNCHANGED <<impl, probe>>

\* the setTimeout callback without setIsSpinning(false)
spinTimeoutKeepsSpinning ==
    /\ timers # <<>>
    /\ LET closure == Head(timers)
       IN  IF impl = "types"
           THEN /\ winner' = Some(getCurrentWinner(closure.options, closure.newRotation))
                /\ showResult' = TRUE
           ELSE UNCHANGED <<winner, showResult>>
    /\ timers' = Tail(timers)
    /\ lastEvent' = Event("timer", "ok")
    /\ UNCHANGED <<impl, options, isSpinning, currentRotation, pendingPreservedWinner,
                   used, probe>>

\* the setTimeout callback of launchSpin
spinTimeout ==
    /\ timers # <<>>
    /\ LET closure == Head(timers)
       IN  IF impl = "types"
           THEN /\ winner' = Some(getCurrentWinner(closure.options, closure.newRotation))
                /\ isSpinning' = FALSE
                /\ showResult' = TRUE
           ELSE /\ isSpinning' = FALSE
                /\ UNCHANGED <<winner, showResult>>
    /\ timers' = Tail(timers)
    /\ lastEvent' = Event("timer", "ok")
    /\ UNCHANGED <<impl, options, currentRotation, pendingPreservedWinner, used, probe>>

\* validateOption looking up the text as typed, untrimmed
validateOptionUntrimmedDuplicate(value, skipDuplicateCheck) ==
    LET trimmed == Trim(value)
    IN  IF trimmed = EmptyString THEN "empty"
        ELSE IF Len(trimmed) > maxOptionLength THEN "toolong"
        ELSE IF ~skipDuplicateCheck /\ Includes(options, value) THEN "duplicate"
        ELSE IF Len(options) >= maxOptions THEN "full"
        ELSE ""

\* validateOption without the maxOptions test
validateOptionNoFull(value, skipDuplicateCheck) ==
    LET trimmed == Trim(value)
    IN  IF trimmed = EmptyString THEN "empty"
        ELSE IF Len(trimmed) > maxOptionLength THEN "toolong"
        ELSE IF ~skipDuplicateCheck /\ Includes(options, trimmed) THEN "duplicate"
        ELSE ""

\* validateOption(value, skipDuplicateCheck); types/index.ts has no second parameter
validateOption(value, skipDuplicateCheck) ==
    LET trimmed == Trim(value)
    IN  IF trimmed = EmptyString THEN "empty"
        ELSE IF Len(trimmed) > maxOptionLength THEN "toolong"
        ELSE IF ~skipDuplicateCheck /\ Includes(options, trimmed) THEN "duplicate"
        ELSE IF Len(options) >= maxOptions THEN "full"
        ELSE ""

\* handleSubmit with newOption = text
handleSubmit ==
    /\ \E text \in AddTexts(options) :
         LET error == validateOption(text, FALSE)
         IN  IF error # ""
             THEN Rejected(Event("add", error))
             ELSE /\ used < MaxEvents
                  /\ LET after == AddOutcome(options, currentRotation, text)
                     IN  /\ options' = after.options
                         /\ pendingPreservedWinner' = after.pending
                         /\ currentRotation' = after.rotation
                  /\ lastEvent' = [Event("add", "ok") EXCEPT
                                      !.prevWinner = Some(getCurrentWinner(options, currentRotation))]
                  /\ used' = used + 1
    /\ UNCHANGED <<impl, isSpinning, winner, showResult, timers, probe>>

\* handleRemoveOption without the minOptions test in either file
handleRemoveOptionUnguarded ==
    /\ used < MaxEvents
    /\ \E index \in 0..(Len(options) - 1) :
         LET prev == Some(getCurrentWinner(options, currentRotation))
         IN  /\ Commit(FilterOut(options, index),
                       IF impl = "types" THEN prev ELSE pendingPreservedWinner,
                       currentRotation)
             /\ lastEvent' = [Event("remove", "ok") EXCEPT
                                 !.index = index, !.prevWinner = prev]
    /\ used' = used + 1
    /\ UNCHANGED <<impl, isSpinning, winner, showResult, timers, probe>>

\* handleRemoveOption(index)
handleRemoveOption ==
    /\ \E index \in 0..(Len(options) - 1) :
         LET prev == Some(getCurrentWinner(options, currentRotation))
         IN  IF impl = "types"
             THEN IF Len(options) > minOptions
                  THEN /\ used < MaxEvents
                       /\ Commit(FilterOut(options, index), prev, currentRotation)
                       /\ lastEvent' = [Event("remove", "ok") EXCEPT
                                           !.index = index, !.prevWinner = prev]
                       /\ used' = used + 1
                  ELSE Rejected(Event("remove", "belowmin"))
             ELSE /\ used < MaxEvents
                  /\ Commit(FilterOut(options, index), pendingPreservedWinner, currentRotation)
                  /\ lastEvent' = [Event("remove", "ok") EXCEPT
                                      !.index = index, !.prevWinner = prev]
                  /\ used' = used + 1
    /\ UNCHANGED <<impl, isSpinning, winner, showResult, timers, probe>>

\* handleEditOption(index), with the text the prompt returned (null on cancel);
\* components/SpinnerApp.tsx only
handleEditOption ==
    /\ impl = "components"
    /\ \E index \in EditIndexes(Len(options)) :
         LET current == options[index + 1]
         IN  \E updatedText \in {Null} \cup {Some(t) : t \in EditTexts(options, index)} :
               LET event(result) == [Event("edit", result) EXCEPT
                                        !.index = index, !.text = updatedText]
               IN  IF updatedText = Null
                   THEN Rejected(event("cancelled"))
                   ELSE LET trimmed == Trim(updatedText[1])
                        IN  IF trimmed = EmptyString
                            THEN Rejected(event("empty"))
                            ELSE LET error == validateOption(trimmed, trimmed = current)
                                 IN  IF error # ""
                                     THEN Rejected(event(error))
                                     ELSE /\ used < MaxEvents
                                          /\ Commit([options EXCEPT ![index + 1] = trimmed],
                                                    pendingPreservedWinner, currentRotation)
                                          /\ lastEvent' = event("ok")
                                          /\ used' = used + 1
    /\ UNCHANGED <<impl, isSpinning, winner, showResult, timers, probe>>

\* handleClearOptions requesting preservation like the other mutations
handleClearOptionsPreserving ==
    /\ used < MaxEvents
    /\ Commit(IF impl = "types" THEN defaultOptions ELSE <<>>,
              Some(getCurrentWinner(options, currentRotation)), 0)
    /\ lastEvent' = Event("clear", "ok")
    /\ used' = used + 1
    /\ UNCHANGED <<impl, isSpinning, winner, showResult, timers, probe>>

\* handleClearOptions also ending the spin in flight
handleClearOptionsStopsSpin ==
    /\ used < MaxEvents
    /\ Commit(IF impl = "types" THEN defaultOptions ELSE <<>>, Null, 0)
    /\ isSpinning' = FALSE
    /\ lastEvent' = Event("clear", "ok")
    /\ used' = used + 1
    /\ UNCHANGED <<impl, winner, showResult, timers, probe>>

\* handleClearOptions: the default list in types/index.ts, the empty list in
\* components/SpinnerApp.tsx
handleClearOptions ==
    /\ used < MaxEvents
    /\ Commit(IF impl = "types" THEN defaultOptions ELSE <<>>, Null, 0)
    /\ lastEvent' = Event("clear", "ok")
    /\ used' = used + 1
    /\ UNCHANGED <<impl, isSpinning, winner, showResult, timers, probe>>

\* closeResultModal, offered by the open result modal of types/index.ts
closeResultModal ==
    /\ impl = "types"
    /\ showResult
    /\ showResult' = FALSE
    /\ lastEvent' = Event("close", "ok")
    /\ UNCHANGED <<impl, options, isSpinning, winner, currentRotation,
                   pendingPreservedWinner, timers, used, probe>>

Next ==
    \/ launchSpin
    \/ spinTimeout
    \/ handleSubmit
    \/ handleRemoveOption
    \/ handleEditOption
    \/ handleClearOptions
    \/ closeResultModal

Spec == Init /\ [][Next]_vars

\* The freshly constructed component, and the browser running the setTimeout
\* callback once animationDuration has elapsed: an outstanding timer does not
\* stay outstanding for ever.
InitLive == Init /\ options = defaultOptions

SpecLive == InitLive /\ [][Next]_vars /\ WF_vars(spinTimeout)

-----------------------------------------------------------------------------
(* Direct calls of the pure functions.  The inputs are drawn in InitPure:    *)
(* a list of every length up to maxOptions, a position in it (none in the    *)
(* empty list, for which the effect is not called), and a                    *)
(* rotation on the quarter-segment grid of that list (segment boundaries,    *)
(* segment centres, the points between them, negative values, and the ties   *)
(* of Math.round all lie on it).                                             *)

ProbeLists == {SubSeq(LabelPool, 1, n) : n \in 0..maxOptions}

\* (the empty list has no segments: its rotations are those of a one-option list)
ProbeRotations(n) ==
    LET m == IF n = 0 THEN 1 ELSE n
    IN  {j * (SegmentAngle(m) \div 4) : j \in (0 - 4 * m * ProbeTurns)..(4 * m * ProbeTurns)}

InitPure ==
    /\ impl \in {"types", "components"}
    /\ options = defaultOptions
    /\ isSpinning = FALSE
    /\ winner = Null
    /\ showResult = FALSE
    /\ currentRotation = 0
    /\ pendingPreservedWinner = Null
    /\ timers = <<>>
    /\ lastEvent = NoEvent
    /\ used = 0
    /\ \E opts \in ProbeLists :
         \E r \in ProbeRotations(Len(opts)),
            index \in IF opts = <<>> THEN {-1} ELSE 0..(Len(opts) - 1) :
           probe = [NoProbe EXCEPT !.fn = "input", !.opts = opts, !.r = r, !.index = index]

\* mod(r, 360)
callMod ==
    /\ probe.fn # "none"
    /\ probe' = [probe EXCEPT !.fn = "mod", !.out = mod(probe.r, Turn), !.label = Null]
    /\ UNCHANGED appVars

\* getCurrentWinner(r) in a render whose option list is opts
callGetCurrentWinner ==
    /\ probe.fn # "none"
    /\ probe' = [probe EXCEPT !.fn = "winner", !.out = 0,
                              !.label = Some(getCurrentWinner(probe.opts, probe.r))]
    /\ UNCHANGED appVars

\* the effect run with pendingPreservedWinner = opts[index] at rotation r
callEffect ==
    /\ probe.fn # "none"
    /\ probe.index >= 0
    /\ LET label == probe.opts[probe.index + 1]
           after == EffectPass(probe.opts, Some(label), probe.r)
       IN  probe' = [probe EXCEPT !.fn = "effect", !.out = after.rotation,
                                  !.label = after.pending]
    /\ UNCHANGED appVars

\* after callEffect: the re-run of the effect that its own updates trigger
\* (rerun), and the effect run with the same label pending again at the
\* rotation it has just set (again)
callEffectAgain ==
    /\ probe.fn = "effect"
    /\ LET label == probe.opts[probe.index + 1]
           rerun == Settle(probe.opts, probe.label, probe.out)
           again == EffectPass(probe.opts, Some(label), probe.out)
       IN  probe' = [probe EXCEPT !.fn = "effect2", !.rerun = rerun.rotation,
                                  !.again = again.rotation]
    /\ UNCHANGED appVars

NextPure ==
    \/ callMod
    \/ callGetCurrentWinner
    \/ callEffect
    \/ callEffectAgain

SpecPure == InitPure /\ [][NextPure]_vars

-----------------------------------------------------------------------------
(* Properties *)

Abs(x) == IF x < 0 THEN 0 - x ELSE x

SpinAccepted == lastEvent.op = "spin" /\ lastEvent.result = "ok"

\* C1: after an accepted spin whose random segment choice was segmentIndex, the
\* winner resolved at the new cumulative rotation is options[segmentIndex].
C1_SpinLandsOnChosenSegment ==
    SpinAccepted =>
        getCurrentWinner(options, currentRotation) = options[lastEvent.index + 1]

\* C2: after an accepted spin from any prior rotation, the new rotation
\* normalized to [0, 360) equals targetLocalAngle mod 360.
C2_SpinRotationIsTargetAngle ==
    SpinAccepted => mod(currentRotation, Turn) = lastEvent.angle % Turn

\* C3: for a list of n >= 2 options and any rotation r (negative ones too), the
\* resolver returns the option at floor(((270 - r) mod 360) / (360/n)) mod n,
\* with mod the mathematical modulus; for two options at rotation 0 that is
\* the option at index 1.
C3_ResolverIndex ==
    (probe.fn = "winner" /\ Len(probe.opts) >= 2) =>
        LET n == Len(probe.opts)
            topAngle == (Deg(270) - (probe.r % Turn)) % Turn
            index == ((topAngle * n) \div Turn) % n
        IN  /\ probe.label = Some(probe.opts[index + 1])
            /\ (n = 2 /\ probe.r = 0) => probe.label = Some(probe.opts[2])

C3_Witness ==
    /\ probe.fn = "winner"
    /\ Len(probe.opts) = 2
    /\ probe.r = 0
    /\ probe.label = Some(probe.opts[2])

\* C4: for every rotation r, negative ones included, normalize(r) lies in
\* [0, 360) and differs from r by a whole number of turns; normalize(-10) = 350.
C4_NormalizeTrueModulo ==
    probe.fn = "mod" =>
        /\ probe.out >= 0
        /\ probe.out < Turn
        /\ \E k \in (0 - ProbeTurns - 1)..(ProbeTurns + 1) : probe.out = probe.r + k * Turn
        /\ (probe.r = 0 - Deg(10)) => probe.out = Deg(350)

C4_Witness ==
    /\ probe.fn = "mod"
    /\ probe.r = 0 - Deg(10)
    /\ probe.out = Deg(350)

\* C5: a spin request made while isSpinning is true changes neither the
\* rotation, isSpinning, the option list nor the pending preservation and
\* starts no timer; at most one completion timer is ever outstanding.
C5_SpinWhileSpinningIsNoOp ==
    [][/\ (isSpinning /\ lastEvent'.op = "spin") =>
             /\ lastEvent'.result = "rejected"
             /\ UNCHANGED <<options, currentRotation, isSpinning,
                            pendingPreservedWinner, timers>>
       /\ Len(timers') <= 1]_vars

C5_Witness ==
    /\ lastEvent.op = "spin"
    /\ lastEvent.result = "rejected"
    /\ isSpinning
    /\ Len(timers) = 1
    /\ Len(options) >= minOptions

\* C6: when the completion timer fires, the winner it commits is the winner
\* resolved on the option list and rotation current at that moment.
C6_CommittedWinnerIsCurrent ==
    (impl = "types" /\ lastEvent.op = "timer") =>
        winner = Some(getCurrentWinner(options, currentRotation))

\* C7: reconciling label at position index gives a rotation congruent mod 360
\* to 270 - (index * segmentAngle + segmentAngle / 2), at which the resolver
\* returns label.
C7_ReconcileCentresLabel ==
    probe.fn = "effect" =>
        LET n == Len(probe.opts)
            centre == (probe.index * Turn) \div n + Turn \div (2 * n)
        IN  /\ (probe.out - (Deg(270) - centre)) % Turn = 0
            /\ getCurrentWinner(probe.opts, probe.out) = probe.opts[probe.index + 1]

C7_Witness ==
    /\ probe.fn = "effect"
    /\ Len(probe.opts) >= 3
    /\ probe.index > 0
    /\ probe.out # probe.r
    /\ getCurrentWinner(probe.opts, probe.r) # probe.opts[probe.index + 1]

\* C8: after an accepted add to a non-empty list and the realignment that
\* follows it, the option under the pointer is the one that was under it before.
C8_AddPreservesWinner ==
    (lastEvent.op = "add" /\ lastEvent.result = "ok" /\ Len(options) >= 2) =>
        Some(getCurrentWinner(options, currentRotation)) = lastEvent.prevWinner

C8_Witness ==
    /\ lastEvent.op = "add"
    /\ lastEvent.result = "ok"
    /\ Len(options) >= 3
    /\ currentRotation > Turn
    /\ Some(getCurrentWinner(options, currentRotation)) = lastEvent.prevWinner

\* C9: in types/index.ts, removing an option other than the one under the
\* pointer from a list above minOptions leaves the winner unchanged.
C9_RemoveOtherPreservesWinner ==
    [][(/\ impl = "types"
        /\ lastEvent'.op = "remove"
        /\ lastEvent'.result = "ok"
        /\ Len(options') = Len(options) - 1
        /\ options[lastEvent'.index + 1] # getCurrentWinner(options, currentRotation))
       => getCurrentWinner(options', currentRotation')
            = getCurrentWinner(options, currentRotation)]_vars

C9_Witness ==
    /\ impl = "types"
    /\ lastEvent.op = "remove"
    /\ lastEvent.result = "ok"
    /\ Includes(options, lastEvent.prevWinner[1])
    /\ Some(getCurrentWinner(options, currentRotation)) = lastEvent.prevWinner

\* C10: the reconciled rotation R is the member of its class mod 360 nearest
\* to the prior rotation r; hence |R - r| <= 180.
C10_MinimalJump ==
    probe.fn = "effect" =>
        /\ 2 * Abs(probe.out - probe.r) <= Turn
        /\ \A k \in (0 - ProbeTurns - 1)..(ProbeTurns + 1) :
             Abs(probe.out - probe.r) <= Abs(probe.out + k * Turn - probe.r)

C10_Witness ==
    /\ probe.fn = "effect"
    /\ probe.r < 0
    /\ probe.out < 0 - Turn \div 2
    /\ probe.out # probe.r

\* C11: when the realignment pass runs with a pending label that is no longer
\* in the option list (types/index.ts: the option under the pointer was
\* removed), the rotation and isSpinning are left unchanged, the list is the
\* one the removal produced, and the pass completes, consuming the label.
C11_MissingLabelLeavesRotation ==
    [][(/\ impl = "types"
        /\ lastEvent'.op = "remove"
        /\ lastEvent'.result = "ok"
        /\ ~Includes(options', getCurrentWinner(options, currentRotation)))
       => /\ currentRotation' = currentRotation
          /\ isSpinning' = isSpinning
          /\ options' = FilterOut(options, lastEvent'.index)
          /\ pendingPreservedWinner' = Null]_vars

C11_Witness ==
    /\ impl = "types"
    /\ lastEvent.op = "remove"
    /\ lastEvent.result = "ok"
    /\ ~Includes(options, lastEvent.prevWinner[1])
    /\ currentRotation # 0
    /\ pendingPreservedWinner = Null

\* C12 as stated: in every state, the realignment pass having run, the pending
\* preservation is null.
C12_PendingIsNull == pendingPreservedWinner = Null

\* C12, amended: once the realignment pass has run the pending preservation is
\* null, or, in components/SpinnerApp.tsx, the empty string that an add to an
\* empty list stored and that the pass skips as falsy.
C12_PendingIsFalsy ==
    \/ pendingPreservedWinner = Null
    \/ impl = "components" /\ pendingPreservedWinner = Some(EmptyString)

C12_Witness ==
    /\ impl = "components"
    /\ lastEvent.op = "add"
    /\ lastEvent.result = "ok"
    /\ Len(options) = 1
    /\ pendingPreservedWinner = Some(EmptyString)

\* C13: the offset drawn within the selected segment satisfies
\* margin <= offset <= segmentAngle - margin, margin being a tenth of the
\* segment, so the target angle lies in
\* [segmentIndex*segmentAngle + margin, (segmentIndex+1)*segmentAngle - margin].
C13_OffsetWithinMargins ==
    SpinAccepted =>
        LET segmentAngle == SegmentAngle(Len(options))
            margin == segmentAngle \div 10
            offset == lastEvent.angle - lastEvent.index * segmentAngle
        IN  /\ margin <= offset
            /\ offset <= segmentAngle - margin
            /\ lastEvent.angle >= lastEvent.index * segmentAngle + margin
            /\ lastEvent.angle <= (lastEvent.index + 1) * segmentAngle - margin

C13_Witness ==
    /\ SpinAccepted
    /\ Len(options) = maxOptions
    /\ lastEvent.index = maxOptions - 1
    /\ lastEvent.angle = lastEvent.index * SegmentAngle(maxOptions)
                           + SegmentAngle(maxOptions) \div 10

\* C14: after every accepted spin the wheel-local angle under the pointer,
\* mod(270 - mod(newRotation, 360), 360), is at least a tenth of a segment away
\* from both boundaries of the segment that contains it.
C14_LandingKeepsMargin ==
    SpinAccepted =>
        LET segmentAngle == SegmentAngle(Len(options))
            margin == segmentAngle \div 10
            topWheelAngle == mod(Deg(POINTER_AT_DEG) - mod(currentRotation, Turn), Turn)
            within == topWheelAngle % segmentAngle
        IN  margin <= within /\ within <= segmentAngle - margin

\* C15: a rejected add (empty, too long, duplicate, list full), a rejected or
\* cancelled edit and, in types/index.ts, a remove at minOptions leave the
\* option list, the rotation, the pending preservation and isSpinning as
\* they were.
C15_RejectedMutationIsNoOp ==
    [][(lastEvent'.op \in {"add", "edit", "remove"} /\ lastEvent'.result # "ok")
       => UNCHANGED <<options, currentRotation, pendingPreservedWinner, isSpinning>>]_vars

C15_Witness ==
    /\ lastEvent.op = "add"
    /\ lastEvent.result = "full"
    /\ Len(options) = maxOptions
    /\ mod(currentRotation, Turn) # 0

\* C16: no reachable option list holds two equal labels.
C16_NoDuplicateLabels ==
    \A i, j \in 1..Len(options) : i # j => options[i] # options[j]

C16_Witness ==
    /\ lastEvent.op = "add"
    /\ lastEvent.result = "duplicate"
    /\ used = MaxEvents
    /\ Len(options) > Len(defaultOptions)
    /\ Len(options) < maxOptions

\* C17 as stated: in components/SpinnerApp.tsx every reachable option list has
\* between minOptions and maxOptions entries.
C17_LengthWithinMinMax ==
    impl = "components" => Len(options) \in minOptions..maxOptions

\* C17, amended: in components/SpinnerApp.tsx every reachable option list has
\* at most maxOptions entries; remove and clear take it below minOptions, down
\* to the empty list.
C17_LengthAtMostMax ==
    impl = "components" => Len(options) \in 0..maxOptions

C17_Witness ==
    /\ impl = "components"
    /\ lastEvent.op = "remove"
    /\ lastEvent.result = "ok"
    /\ Len(options) = minOptions - 1

\* C18: a spin request made with fewer than minOptions options is rejected,
\* with no rotation change, isSpinning unchanged and no timer started; every
\* outstanding timer belongs to a spin launched with at least minOptions.
C18_SpinBelowMinRejected ==
    [][/\ (Len(options) < minOptions /\ lastEvent'.op = "spin")
          => /\ lastEvent'.result = "rejected"
             /\ UNCHANGED <<options, currentRotation, isSpinning,
                            pendingPreservedWinner, timers>>
       /\ \A i \in 1..Len(timers') : Len(timers'[i].options) >= minOptions]_vars

C18_Witness ==
    /\ Len(options) < minOptions
    /\ lastEvent.op = "spin"
    /\ lastEvent.result = "rejected"
    /\ ~isSpinning
    /\ timers = <<>>

\* C19 as stated: the resolver called with an empty option list returns no
\* value.
C19_EmptyListReturnsNothing ==
    (probe.fn = "winner" /\ Len(probe.opts) = 0) => probe.label = Null

\* C19, amended: the resolver called with an empty option list returns the
\* empty string, without an error.
C19_EmptyListReturnsEmptyString ==
    (probe.fn = "winner" /\ Len(probe.opts) = 0) => probe.label = Some(EmptyString)

C19_Witness ==
    /\ probe.fn = "winner"
    /\ probe.opts = <<>>
    /\ probe.label = Some(EmptyString)

\* C20: an edit of the option at index i is rejected exactly when the trimmed
\* text is empty, longer than maxOptionLength, or the label of another option;
\* otherwise, at every list size up to maxOptions, it replaces position i and
\* nothing else.
C20_EditRejectedExactlyWhenInvalid ==
    [][(lastEvent'.op = "edit" /\ lastEvent'.text # Null)
       => LET i == lastEvent'.index + 1
              trimmed == Trim(lastEvent'.text[1])
              invalid == \/ trimmed = EmptyString
                         \/ Len(trimmed) > maxOptionLength
                         \/ \E j \in 1..Len(options) : j # i /\ options[j] = trimmed
          IN  IF invalid
              THEN lastEvent'.result # "ok" /\ options' = options
              ELSE /\ lastEvent'.result = "ok"
                   /\ options' = [options EXCEPT ![i] = trimmed]]_vars

\* C21: a spin in flight cannot be cancelled: under every event other than its
\* timer firing (add, remove, edit, clear, close, a further spin request)
\* isSpinning stays true and the timer stays outstanding; isSpinning is true
\* exactly when one timer is outstanding, and there is never more than one.
C21_SpinNotCancellable ==
    [][/\ (isSpinning /\ lastEvent'.op # "timer") => (isSpinning' /\ timers' = timers)
       /\ (isSpinning /\ ~isSpinning') => (lastEvent'.op = "timer" /\ timers' = <<>>)
       /\ isSpinning' <=> Len(timers') = 1
       /\ Len(timers') <= 1]_vars

C21_Witness ==
    /\ isSpinning
    /\ Len(timers) = 1
    /\ lastEvent.op = "clear"
    /\ currentRotation = 0

\* C22: the timer firing, every spin in flight completes: isSpinning returns
\* to false; in types/index.ts the winner is then committed, the result dialog
\* is shown and the guard of launchSpin lets a new spin request through.
C22_SpinEventuallyCompletes ==
    /\ isSpinning ~> ~isSpinning
    /\ (impl = "types" /\ isSpinning)
         ~> (/\ ~isSpinning
             /\ winner # Null
             /\ showResult
             /\ ~launchSpinGuard)

C22_Witness ==
    /\ impl = "types"
    /\ lastEvent.op = "timer"
    /\ ~isSpinning
    /\ winner # Null
    /\ showResult
    /\ ~launchSpinGuard

\* C23: with the label present and the list unchanged, reconciling the already
\* reconciled rotation returns that same rotation, and the re-run of the effect
\* that its own updates trigger leaves the rotation where the first run put it.
C23_ReconcileIdempotent ==
    probe.fn = "effect2" => (probe.again = probe.out /\ probe.rerun = probe.out)

C23_Witness ==
    /\ probe.fn = "effect2"
    /\ Len(probe.opts) = maxOptions
    /\ probe.out # probe.r
    /\ probe.out < 0
    /\ probe.again = probe.out

\* C24: clear/reset abandons preservation: after it the pending preservation
\* is null, the rotation is 0 and stays 0 under the realignment pass, the list
\* is empty (components/SpinnerApp.tsx) or the default list (types/index.ts),
\* and isSpinning is as it was.
C24_ClearAbandonsPreservation ==
    [][lastEvent'.op = "clear"
       => /\ pendingPreservedWinner' = Null
          /\ currentRotation' = 0
          /\ EffectPass(options', pendingPreservedWinner', currentRotation').rotation = 0
          /\ options' = IF impl = "types" THEN defaultOptions ELSE <<>>
          /\ isSpinning' = isSpinning]_vars

C24_Witness ==
    /\ impl = "types"
    /\ lastEvent.op = "clear"
    /\ lastEvent.result = "ok"
    /\ used = MaxEvents
    /\ isSpinning
    /\ options = defaultOptions
    /\ currentRotation = 0
    /\ pendingPreservedWinner = Null

\* C25: each accepted spin adds to the rotation a whole number of turns between
\* minRotations and maxRotations plus an angle within one turn: the rotation
\* strictly increases, by an amount in
\* [minRotations * 360, (maxRotations + 1) * 360).
C25_SpinCountWithinRange ==
    [][(lastEvent'.op = "spin" /\ lastEvent'.result = "ok")
       => LET spinDegrees == currentRotation' - currentRotation
              spins == FloorDiv(spinDegrees, Turn)
          IN  /\ spins \in minRotations..maxRotations
              /\ spinDegrees = spins * Turn + lastEvent'.angle
              /\ currentRotation' > currentRotation
              /\ spinDegrees >= minRotations * Turn
              /\ spinDegrees < (maxRotations + 1) * Turn]_vars

C25_Witness ==
    /\ SpinAccepted
    /\ used = MaxEvents
    /\ currentRotation > 2 * maxRotations * Turn
    /\ currentRotation < 2 * (maxRotations + 1) * Turn

\* C26: in types/index.ts every reachable list has between minOptions and
\* maxOptions entries, so has the list of every timer closure (the resolver is
\* never given an empty list), and while isSpinning is true the committed
\* winner is null and the result dialog is hidden.
C26_TypesLengthAndSpinState ==
    impl = "types" =>
        /\ Len(options) \in minOptions..maxOptions
        /\ \A i \in 1..Len(timers) : Len(timers[i].options) \in minOptions..maxOptions
        /\ isSpinning => (winner = Null /\ ~showResult)

C26_Witness ==
    /\ impl = "types"
    /\ SpinAccepted
    /\ used = MaxEvents
    /\ currentRotation >= (maxRotations + 1) * Turn
    /\ isSpinning
    /\ winner = Null
    /\ ~showResult
    /\ Len(options) = minOptions

====
